---------------------------- MODULE Spec2Model ----------------------------
(***************************************************************************)
(* A model of grader.py: the AutoGrader (fetch_answer_file, check_answer,  *)
(* _compare_answers), submit_answer and create_lab_functions.              *)
(*                                                                         *)
(* Python values are records of one fixed shape (field k is the Python     *)
(* type, the other fields its payload, blank when the type has none), so   *)
(* that Python's == between values of any two types is record equality.    *)
(* Numbers are Python ints.  A submitted callable is a named function      *)
(* whose behaviour Invoke gives; it raises only Exception subclasses.      *)
(***************************************************************************)
EXTENDS Integers, Sequences, FiniteSets, TLC

VARIABLES
    globals_dict,   \* check_problem_<i> bindings installed by create_lab_functions
    call,           \* the operation performed last, with its arguments
    result,         \* what that operation gave back: a return value or a raised exception
    printed,        \* the lines submit_answer printed during that operation
    invocations,    \* the argument lists the submitted callable was invoked with
    earlier,        \* one earlier grader.check_answer call and its result (history)
    created         \* the create_lab_functions calls made so far (history)

vars == <<globals_dict, call, result, printed, invocations, earlier, created>>

-----------------------------------------------------------------------------
(* Bounds of the model *)

MaxNum == 3
MaxTol == 2
MaxListLen == 3
MaxCases == 2
MaxStrLen == 3
MaxPatterns == 2
MaxProblems == 2
MaxCreates == 3

-----------------------------------------------------------------------------
(* Python values *)

Blank ==
    [k |-> "none", n |-> 0, str |-> <<>>, items |-> <<>>, fn |-> "",
     dtype |-> "", shape |-> <<>>, keys |-> {}, required |-> <<>>,
     forbidden |-> <<>>]

PyNone == Blank
PyInt(i) == [Blank EXCEPT !.k = "int", !.n = i]
PyStr(s) == [Blank EXCEPT !.k = "str", !.str = s]
PyList(l) == [Blank EXCEPT !.k = "list", !.items = l]
PyTuple(l) == [Blank EXCEPT !.k = "tuple", !.items = l]
PyFunc(f) == [Blank EXCEPT !.k = "func", !.fn = f]

\* a list element: an int or a str
IntAtom(i) == [k |-> "int", n |-> i, str |-> <<>>]
StrAtom(s) == [k |-> "str", n |-> 0, str |-> s]
Lift(a) == [Blank EXCEPT !.k = a.k, !.n = a.n, !.str = a.str]

\* the JSON objects the descriptors carry as "answer"
PatternDict(ks, req, forb) ==
    [Blank EXCEPT !.k = "dict", !.keys = ks, !.required = req, !.forbidden = forb]
SeriesDict(ks, vals, dt) ==
    [Blank EXCEPT !.k = "dict", !.keys = ks, !.items = vals, !.dtype = dt]
TableDict(cols, cells) ==
    [Blank EXCEPT !.k = "dict", !.keys = cols, !.items = cells]

\* pandas and numpy objects
Series(vals, dt) ==
    [Blank EXCEPT !.k = "series", !.items = vals, !.dtype = dt, !.shape = <<Len(vals)>>]
NdArray(vals, dt) ==
    [Blank EXCEPT !.k = "ndarray", !.items = vals, !.dtype = dt, !.shape = <<Len(vals)>>]
DataFrame(cols, cells) ==
    [Blank EXCEPT !.k = "dataframe", !.keys = cols, !.items = cells,
                  !.shape = <<Len(cells), Cardinality(cols)>>]

HasAttr(v, attr) ==
    CASE attr = "dtype"  -> v.k \in {"series", "ndarray"}
      [] attr = "values" -> v.k \in {"series", "dataframe"}
      [] attr = "shape"  -> v.k \in {"series", "ndarray", "dataframe"}
      [] attr = "tolist" -> v.k \in {"series", "ndarray"}
      [] OTHER -> FALSE

\* Python's == on ints, strs, lists, dicts, None and function objects
PyEq(a, b) == a = b

\* bool(x == y) raises ValueError when x is an array-like of more or fewer than one element
TruthRaises(v) == v.k \in {"series", "ndarray", "dataframe"} /\ Len(v.items) # 1

Abs(i) == IF i < 0 THEN -i ELSE i


-----------------------------------------------------------------------------
(* sorted(): Python orders ints among themselves and strs among themselves; *)
(* '<' between an int and a str raises TypeError                            *)

Alphabet == <<"a", "b", "p", "s">>
Rank(c) == CHOOSE i \in 1..Len(Alphabet) : Alphabet[i] = c

RECURSIVE StrLess(_, _)
StrLess(s, t) ==
    IF t = <<>> THEN FALSE
    ELSE IF s = <<>> THEN TRUE
    ELSE IF Rank(Head(s)) # Rank(Head(t)) THEN Rank(Head(s)) < Rank(Head(t))
    ELSE StrLess(Tail(s), Tail(t))

AtomLess(a, b) == IF a.k = "int" THEN a.n < b.n ELSE StrLess(a.str, b.str)

Unorderable(l) == \E i, j \in 1..Len(l) : l[i].k # l[j].k

RECURSIVE Insert(_, _)
Insert(x, l) ==
    IF l = <<>> THEN <<x>>
    ELSE IF AtomLess(x, Head(l)) THEN <<x>> \o l
    ELSE <<Head(l)>> \o Insert(x, Tail(l))

RECURSIVE SortAtoms(_)
SortAtoms(l) == IF l = <<>> THEN <<>> ELSE Insert(Head(l), SortAtoms(Tail(l)))

PySorted(l) ==
    IF Unorderable(l) THEN [raised |-> TRUE, val |-> <<>>]
    ELSE [raised |-> FALSE, val |-> SortAtoms(l)]

\* pattern in student_answer, for two strs
IsSubstr(p, s) ==
    \E i \in 0..(Len(s) - Len(p)) : SubSeq(s, i + 1, i + Len(p)) = p

-----------------------------------------------------------------------------
(* The submitted callables *)

\* what calling the submission with the positional arguments args does
Invoke(f, args) ==
    IF f.k # "func" THEN [raised |-> TRUE, val |-> PyNone]            \* not callable
    ELSE CASE f.fn = "add" ->
                IF Len(args) = 2 /\ args[1].k = "int" /\ args[2].k = "int"
                THEN [raised |-> FALSE, val |-> PyInt(args[1].n + args[2].n)]
                ELSE [raised |-> TRUE, val |-> PyNone]
           [] f.fn = "root" ->      \* raises ValueError on a negative argument
                IF Len(args) = 1 /\ args[1].k = "int" /\ args[1].n >= 0
                THEN [raised |-> FALSE, val |-> args[1]]
                ELSE [raised |-> TRUE, val |-> PyNone]
           [] f.fn = "first" ->     \* def first(x, *rest): return x
                IF Len(args) >= 1
                THEN [raised |-> FALSE, val |-> args[1]]
                ELSE [raised |-> TRUE, val |-> PyNone]
           [] OTHER -> [raised |-> TRUE, val |-> PyNone]              \* always raises

-----------------------------------------------------------------------------
(* Feedback texts (the f-strings' arguments are kept as fields) *)

Fb(m) ==
    [msg |-> m, diff |-> 0, passed |-> 0, total |-> 0, missing |-> <<>>,
     forbidden |-> <<>>, got |-> PyNone, want |-> PyNone]

Correct == Fb("correct")

\* dictionary access on a descriptor or a test case
Get(d, key, default) == IF key \in d.has THEN d[key] ELSE default

Done(m, f) == [raised |-> "", match |-> m, feedback |-> f, invoked |-> <<>>]

\* the except clause of _compare_answers
Caught == Done(FALSE, Fb("grading_error"))

CompareExact(s, e) ==
    IF TruthRaises(s) THEN Caught
    ELSE IF PyEq(s, e) THEN Done(TRUE, Correct) ELSE Done(FALSE, Fb("wrong"))

NumericMatchStrict(diff, tol) == diff < tol
NumericMatch(diff, tol) == diff <= tol

CompareNumeric(s, e, tol) ==
    IF s.k = "int" /\ e.k = "int"
    THEN LET diff == Abs(s.n - e.n) IN
         IF tol.k # "int" THEN Caught
         ELSE IF NumericMatch(diff, tol.n) THEN Done(TRUE, Correct)
         ELSE Done(FALSE, [Fb("not_close") EXCEPT !.diff = diff])
    ELSE Done(FALSE, Fb("need_number"))

ListMatchUnsorted(s, e) == [raised |-> FALSE, val |-> s = e]
ListMatch(s, e) ==
    IF PySorted(s).raised \/ PySorted(e).raised THEN [raised |-> TRUE, val |-> FALSE]
    ELSE [raised |-> FALSE, val |-> PySorted(s).val = PySorted(e).val]

CompareList(s, e) ==
    IF s.k = "list" /\ e.k = "list"
    THEN LET m == ListMatch(s.items, e.items) IN
         IF m.raised THEN Caught
         ELSE IF m.val THEN Done(TRUE, Correct) ELSE Done(FALSE, Fb("list_differs"))
    ELSE Done(FALSE, Fb("need_list"))

CompareDataframe(s, e) ==
    IF s.k = "dataframe" /\ e.k = "dict"
    THEN IF PyEq(TableDict(s.keys, s.items), e)
         THEN Done(TRUE, Correct) ELSE Done(FALSE, Fb("dataframe_differs"))
    ELSE Done(FALSE, Fb("need_dataframe"))

CompareSeriesDtype(s, e) ==
    IF HasAttr(s, "dtype") /\ HasAttr(s, "values")
    THEN IF e.k # "dict" \/ "values" \notin e.keys \/ "dtype" \notin e.keys THEN Caught
         ELSE LET values_match == s.items = e.items
                  dtype_match == s.dtype = e.dtype
              IN IF values_match /\ dtype_match THEN Done(TRUE, Correct)
                 ELSE IF ~values_match THEN Done(FALSE, Fb("series_differs"))
                 ELSE Done(FALSE, [Fb("dtype_differs") EXCEPT
                                     !.got = [Blank EXCEPT !.dtype = s.dtype],
                                     !.want = [Blank EXCEPT !.dtype = e.dtype]])
    ELSE Done(FALSE, Fb("need_series"))

CompareSeriesValues(s, e) ==
    IF HasAttr(s, "values")
    THEN IF s.k = "dataframe" THEN Caught     \* rows are arrays: bool(list == list) raises
         ELSE IF PyEq(PyList(s.items), e)
              THEN Done(TRUE, Correct) ELSE Done(FALSE, Fb("series_differs"))
    ELSE Done(FALSE, Fb("need_series"))

\* the positional arguments of one test case: a list is unpacked
ArgsOf(input) ==
    IF input.k = "list" THEN [i \in 1..Len(input.items) |-> Lift(input.items[i])]
    ELSE <<input>>

\* the for loop of the function branch, with break in place of continue
RECURSIVE RunCasesBreak(_, _)
RunCasesBreak(f, cases) ==
    IF cases = <<>> THEN [passed |-> 0, invoked |-> <<>>]
    ELSE LET tc == Head(cases) IN
         IF "input" \notin tc.has \/ "output" \notin tc.has
         THEN [passed |-> 0, invoked |-> <<>>]
         ELSE LET args == ArgsOf(tc.input)
                  r == Invoke(f, args)
                  called == IF f.k = "func" THEN <<args>> ELSE <<>>
              IN IF r.raised THEN [passed |-> 0, invoked |-> called]
                 ELSE LET rest == RunCasesBreak(f, Tail(cases)) IN
                      [passed |-> rest.passed + (IF PyEq(r.val, tc.output) THEN 1 ELSE 0),
                       invoked |-> called \o rest.invoked]

\* the for loop of the function branch: the cases passed and the invocations made
RECURSIVE RunCases(_, _)
RunCases(f, cases) ==
    IF cases = <<>> THEN [passed |-> 0, invoked |-> <<>>]
    ELSE LET tc == Head(cases)
             rest == RunCases(f, Tail(cases))
         IN IF "input" \notin tc.has \/ "output" \notin tc.has
            THEN rest                                   \* KeyError: continue
            ELSE LET args == ArgsOf(tc.input)
                     r == Invoke(f, args)
                     called == IF f.k = "func" THEN <<args>> ELSE <<>>
                     ok == ~r.raised /\ PyEq(r.val, tc.output)
                 IN [passed |-> rest.passed + (IF ok THEN 1 ELSE 0),
                     invoked |-> called \o rest.invoked]

CompareFunction(s, d) ==
    LET test_cases == Get(d, "test_cases", <<>>)
        total == Len(test_cases)
        run == RunCases(s, test_cases)
        match == run.passed = total
    IN [raised |-> "", match |-> match,
        feedback |-> IF match THEN Fb("all_passed")
                     ELSE [Fb("tests_failed") EXCEPT !.passed = run.passed, !.total = total],
        invoked |-> run.invoked]

\* the two pattern loops, the second skipped once a required pattern is missing
PatternCheckShortCircuit(required, forbidden, text) ==
    LET missing == SelectSeq(required, LAMBDA q : ~IsSubstr(q, text)) IN
    [missing |-> missing,
     found |-> IF missing # <<>> THEN <<>>
               ELSE SelectSeq(forbidden, LAMBDA q : IsSubstr(q, text))]

\* the two pattern loops: missing_patterns and found_forbidden
PatternCheck(required, forbidden, text) ==
    [missing |-> SelectSeq(required, LAMBDA q : ~IsSubstr(q, text)),
     found |-> SelectSeq(forbidden, LAMBDA q : IsSubstr(q, text))]

CompareCodePattern(s, e) ==
    IF s.k = "str"
    THEN IF e.k # "dict" THEN Caught                  \* expected.get: AttributeError
         ELSE LET required == IF "required" \in e.keys THEN e.required ELSE <<>>
                  forbidden == IF "forbidden" \in e.keys THEN e.forbidden ELSE <<>>
                  chk == PatternCheck(required, forbidden, s.str)
              IN IF chk.missing = <<>> /\ chk.found = <<>>
                 THEN Done(TRUE, Fb("pattern_ok"))
                 ELSE Done(FALSE, [Fb("pattern_feedback") EXCEPT
                                     !.missing = chk.missing, !.forbidden = chk.found])
    ELSE Done(FALSE, Fb("need_string"))

CompareArrayShape(s, e) ==
    IF HasAttr(s, "shape")
    THEN IF e.k \notin {"list", "str", "dict"} THEN Caught    \* tuple(expected): TypeError
         ELSE LET match ==
                    IF e.k = "list"
                    THEN /\ Len(e.items) = Len(s.shape)
                         /\ \A i \in 1..Len(e.items) :
                               e.items[i].k = "int" /\ e.items[i].n = s.shape[i]
                    ELSE IF e.k = "str" THEN e.str = <<>> /\ s.shape = <<>>
                    ELSE e.keys = {} /\ s.shape = <<>>
              IN IF match THEN Done(TRUE, Correct)
                 ELSE Done(FALSE, [Fb("shape_differs") EXCEPT
                                     !.got = [Blank EXCEPT !.shape = s.shape], !.want = e])
    ELSE Done(FALSE, Fb("need_array"))

CompareArrayValues(s, e) ==
    IF HasAttr(s, "tolist")
    THEN IF PyEq(PyList(s.items), e)
         THEN Done(TRUE, Correct) ELSE Done(FALSE, Fb("array_differs"))
    ELSE Done(FALSE, Fb("need_array"))

Raise(exc) == [raised |-> exc, match |-> FALSE, feedback |-> Fb(""), invoked |-> <<>>]

\* AutoGrader._compare_answers
CompareAnswers(student_answer, correct_answer) ==
    LET answer_type == Get(correct_answer, "type", "exact") IN
    IF "answer" \notin correct_answer.has THEN Raise("KeyError")
    ELSE LET expected == correct_answer.answer
             tolerance == Get(correct_answer, "tolerance", PyInt(0))
         IN CASE answer_type = "exact" -> CompareExact(student_answer, expected)
              [] answer_type = "numeric" -> CompareNumeric(student_answer, expected, tolerance)
              [] answer_type = "list" -> CompareList(student_answer, expected)
              [] answer_type = "dataframe" -> CompareDataframe(student_answer, expected)
              [] answer_type = "series_dtype" -> CompareSeriesDtype(student_answer, expected)
              [] answer_type = "series_values" -> CompareSeriesValues(student_answer, expected)
              [] answer_type = "function" -> CompareFunction(student_answer, correct_answer)
              [] answer_type = "code_pattern" -> CompareCodePattern(student_answer, expected)
              [] answer_type = "array_shape" -> CompareArrayShape(student_answer, expected)
              [] answer_type = "array_values" -> CompareArrayValues(student_answer, expected)
              [] OTHER -> Done(FALSE, Fb("unsupported_type"))

-----------------------------------------------------------------------------
(* check_answer and submit_answer *)

\* the default of correct_answer.get("display_answer", ...)
Hidden == PyStr(<<"h", "i", "d", "d", "e", "n">>)

NoResult ==
    [raised |-> "", fields |-> {}, status |-> "", message |-> [text |-> "", id |-> ""],
     problem_id |-> "",
     correct |-> FALSE, feedback |-> Fb(""), expected |-> PyNone, student_answer |-> PyNone]

Raised(exc) == [NoResult EXCEPT !.raised = exc]

LookupError(problem_id) ==
    [NoResult EXCEPT !.fields = {"status", "message"}, !.status = "error",
                     !.message = [text |-> "not_found", id |-> problem_id]]

\* the "expected" entry of the verdict, emptied for a match
DisplayIfWrong(match, correct_answer) ==
    IF match THEN Hidden ELSE Get(correct_answer, "display_answer", Hidden)

\* the "expected" entry of the verdict
Display(match, correct_answer) == Get(correct_answer, "display_answer", Hidden)

\* AutoGrader.fetch_answer_file: the parsed file, or {} when the request or the parse fails
FetchAnswerFile(fetch) == IF fetch.ok THEN fetch.data ELSE << >>

\* the dictionary check_answer returns for the comparison r of a known problem
Verdict(problem_id, student_answer, correct_answer, r) ==
    IF r.raised # "" THEN [out |-> Raised(r.raised), invoked |-> r.invoked]
    ELSE [out |-> [NoResult EXCEPT
                     !.fields = {"problem_id", "correct", "feedback", "expected",
                                 "student_answer"},
                     !.problem_id = problem_id,
                     !.correct = r.match,
                     !.feedback = r.feedback,
                     !.expected = Display(r.match, correct_answer),
                     !.student_answer = student_answer],
          invoked |-> r.invoked]

\* check_answer grading against the answers of the call kept in earlier (a cache)
CheckAnswerCached(problem_id, student_answer, answers) ==
    IF problem_id \notin DOMAIN answers
    THEN [out |-> LookupError(problem_id), invoked |-> <<>>]
    ELSE IF earlier.set /\ problem_id \in DOMAIN FetchAnswerFile(earlier.call.fetch)
    THEN Verdict(problem_id, student_answer, FetchAnswerFile(earlier.call.fetch)[problem_id],
                 CompareAnswers(student_answer,
                                FetchAnswerFile(earlier.call.fetch)[problem_id]))
    ELSE Verdict(problem_id, student_answer, answers[problem_id],
                 CompareAnswers(student_answer, answers[problem_id]))

\* AutoGrader.check_answer on the fetched answers: the result and the invocations made
CheckAnswer(problem_id, student_answer, answers) ==
    IF problem_id \notin DOMAIN answers
    THEN [out |-> LookupError(problem_id), invoked |-> <<>>]
    ELSE Verdict(problem_id, student_answer, answers[problem_id],
                 CompareAnswers(student_answer, answers[problem_id]))

Labs == {"test1", "midterm"}

\* lab_name.upper()
Upper(lab) == IF lab = "test1" THEN "TEST1" ELSE IF lab = "midterm" THEN "MIDTERM" ELSE lab

\* f"{lab_name}/answers.json"
AnswerFile(lab) == [dir |-> lab, name |-> "answers.json"]

Line(kind) ==
    [line |-> kind, lab |-> "", pid |-> "", correct |-> FALSE, feedback |-> Fb(""),
     expected |-> PyNone]

\* the hint line is printed for a wrong answer whose expected entry is not the default
ShowsHint(res) == ~res.correct /\ ~PyEq(res.expected, Hidden)

\* fetch_answer_file prints a line when the request or the parse fails
Noted(c, fetch) ==
    [out |-> c.out, invoked |-> c.invoked,
     printed |-> IF fetch.ok THEN <<>> ELSE <<Line("fetch_failed")>>]

\* the lines submit_answer prints for the result c of check_answer, and what it returns
Report(c, lab_name) ==
    IF c.out.raised # ""
    THEN c
    ELSE IF "problem_id" \notin c.out.fields                \* result['problem_id']
    THEN [c EXCEPT !.out = Raised("KeyError"), !.printed = @ \o <<Line("rule")>>]
    ELSE [c EXCEPT !.printed = @
              \o <<Line("rule"),
                   [Line("title") EXCEPT !.lab = Upper(lab_name), !.pid = c.out.problem_id],
                   [Line("outcome") EXCEPT !.correct = c.out.correct],
                   [Line("feedback") EXCEPT !.feedback = c.out.feedback]>>
              \o (IF ShowsHint(c.out)
                  THEN <<[Line("hint") EXCEPT !.expected = c.out.expected]>> ELSE <<>>)
              \o <<Line("rule")>>]

\* submit_answer: the result, the lines printed and the invocations made
SubmitAnswer(problem_id, answer, lab_name, fetch) ==
    Report(Noted(CheckAnswer(problem_id, answer, FetchAnswerFile(fetch)), fetch), lab_name)

\* f"problem_{i}"
ProblemId(i) == <<"problem_1", "problem_2", "problem_3", "problem_4", "problem_5">>[i]

Unbound == [bound |-> FALSE, pid |-> "", lab |-> ""]

\* create_lab_functions with check_function reading the loop's variables when called
LateBound(g, lab_name, num_problems) ==
    [i \in DOMAIN g |->
        IF i <= num_problems
        THEN [bound |-> TRUE, pid |-> ProblemId(num_problems), lab |-> lab_name]
        ELSE g[i]]

\* create_lab_functions: globals() after the loop over range(1, num_problems + 1)
CreateLabFunctions(g, lab_name, num_problems) ==
    [i \in DOMAIN g |->
        IF i <= num_problems
        THEN [bound |-> TRUE, pid |-> ProblemId(i), lab |-> lab_name]   \* make_check_function
        ELSE g[i]]

-----------------------------------------------------------------------------
(* The state machine *)

NoFetch == [ok |-> FALSE, data |-> << >>]

Call(op) ==
    [op |-> op, problem_id |-> "", answer |-> PyNone, file |-> AnswerFile(""),
     fetch |-> NoFetch, n |-> 0]

\* no call is running: the session is ready for its next call
Ready == Call("ready")

NoEarlier == [set |-> FALSE, call |-> Call(""), result |-> NoResult]

Init ==
    /\ globals_dict = [i \in 1..MaxProblems |-> Unbound]
    /\ call = Ready
    /\ result = NoResult
    /\ printed = <<>>
    /\ invocations = <<>>
    /\ earlier = NoEarlier
    /\ created = <<>>

\* what the call that ends gave: its result, its output, the invocations it made
Observe(r) ==
    /\ result' = r.out
    /\ printed' = r.printed
    /\ invocations' = r.invoked

\* grader.check_answer(problem_id, answer), called directly; with keep, the call is
\* kept in earlier
DoCheckAnswer(Pids, Answers, Fetches, Keep) ==
    \E problem_id \in Pids, answer \in Answers, fetch \in Fetches, keep \in Keep :
        /\ call = Ready
        /\ call' = [Call("check_answer") EXCEPT !.problem_id = problem_id,
                        !.answer = answer, !.fetch = fetch]
        /\ Observe(Noted(CheckAnswer(problem_id, answer, FetchAnswerFile(fetch)), fetch))
        /\ earlier' = IF keep THEN [set |-> TRUE, call |-> call', result |-> result']
                      ELSE earlier
        /\ UNCHANGED <<globals_dict, created>>

\* submit_answer(problem_id, answer, lab_name)
DoSubmitAnswer(Pids, Answers, Fetches) ==
    \E problem_id \in Pids, answer \in Answers, lab \in Labs, fetch \in Fetches :
        /\ call = Ready
        /\ call' = [Call("submit_answer") EXCEPT !.problem_id = problem_id,
                        !.answer = answer, !.file = AnswerFile(lab), !.fetch = fetch]
        /\ Observe(SubmitAnswer(problem_id, answer, lab, fetch))
        /\ UNCHANGED <<globals_dict, earlier, created>>

\* create_lab_functions(lab_name, num_problems); with record, the call is kept in created
DoCreateLabFunctions(record) ==
    \E lab \in Labs, n \in 0..MaxProblems :
        /\ call = Ready
        /\ record => Len(created) < MaxCreates
        /\ created' = IF record THEN Append(created, [lab |-> lab, n |-> n]) ELSE created
        /\ globals_dict' = CreateLabFunctions(globals_dict, lab, n)
        /\ call' = [Call("create_lab_functions") EXCEPT !.file = AnswerFile(lab), !.n = n]
        /\ result' = NoResult
        /\ printed' = <<>>
        /\ invocations' = <<>>
        /\ UNCHANGED earlier

\* check_problem_<i>(student_answer), once create_lab_functions has installed it
DoCheckProblem(Answers, Fetches) ==
    \E i \in 1..MaxProblems, answer \in Answers, fetch \in Fetches :
        /\ call = Ready
        /\ globals_dict[i].bound
        /\ call' = [Call("check_problem") EXCEPT !.problem_id = globals_dict[i].pid,
                        !.answer = answer, !.file = AnswerFile(globals_dict[i].lab),
                        !.fetch = fetch, !.n = i]
        /\ Observe(SubmitAnswer(globals_dict[i].pid, answer, globals_dict[i].lab, fetch))
        /\ UNCHANGED <<globals_dict, earlier, created>>

\* the call has returned or raised: the session goes on to its next call
Return ==
    /\ call # Ready
    /\ call' = Ready
    /\ result' = NoResult
    /\ printed' = <<>>
    /\ invocations' = <<>>
    /\ UNCHANGED <<globals_dict, earlier, created>>

-----------------------------------------------------------------------------
(* Inputs: answer descriptors, answer files, submissions *)

NoDescriptor ==
    [has |-> {}, type |-> "", answer |-> PyNone, tolerance |-> PyNone,
     test_cases |-> <<>>, display_answer |-> PyNone]

\* {"type": t, "answer": a}
Descriptor(t, a) == [NoDescriptor EXCEPT !.has = {"type", "answer"}, !.type = t, !.answer = a]

With(d, key, v) == [d EXCEPT !.has = @ \cup {key}, ![key] = v]
Without(d, key) == [d EXCEPT !.has = @ \ {key}, ![key] = NoDescriptor[key]]

\* {"input": i, "output": o}
TestCase(i, o) == [has |-> {"input", "output"}, input |-> i, output |-> o]

FilePids == {ProblemId(1), ProblemId(2)}

\* parsed files: the empty one, those with problem_1 alone, and those giving each of
\* problem_1 and problem_2 a descriptor of Both
FilesOf(Descriptors, Both) ==
    UNION {[S -> Descriptors] : S \in {{}, {ProblemId(1)}}}
        \cup [FilePids -> Both]

\* what requests.get and json.loads can give: a failure, or a parsed file
FetchesOf(Files) == {NoFetch} \cup {[ok |-> TRUE, data |-> f] : f \in Files}

SumCase == TestCase(PyList(<<IntAtom(1), IntAtom(2)>>), PyInt(3))
RootCase == TestCase(PyInt(-1), PyInt(1))

KindDescriptors ==
    { Descriptor("exact", PyStr(<<"p", "s">>)),
      Without(Descriptor("exact", PyInt(2)), "type"),
      With(Descriptor("numeric", PyInt(2)), "tolerance", PyInt(1)),
      Descriptor("list", PyList(<<IntAtom(1), IntAtom(2)>>)),
      Descriptor("dataframe", TableDict({"a"}, <<IntAtom(1), IntAtom(2)>>)),
      Descriptor("series_dtype",
                 SeriesDict({"values", "dtype"}, <<IntAtom(1), IntAtom(2)>>, "int64")),
      Descriptor("series_values", PyList(<<IntAtom(1), IntAtom(2)>>)),
      With(Descriptor("function", PyNone), "test_cases", <<SumCase, RootCase>>),
      Descriptor("code_pattern", PatternDict({"required"}, <<<<"p">>>>, <<>>)),
      Descriptor("array_shape", PyList(<<IntAtom(2)>>)),
      Descriptor("array_values", PyList(<<IntAtom(1), IntAtom(2)>>)),
      Descriptor("regex", PyStr(<<"p">>)) }

GeneralDescriptors ==
    KindDescriptors
        \cup {With(d, "display_answer", PyInt(2)) : d \in KindDescriptors}
        \cup {Without(d, "answer") : d \in KindDescriptors}

GeneralAnswers ==
    { PyInt(2), PyInt(3), PyStr(<<"p", "s">>), PyList(<<IntAtom(2), IntAtom(1)>>), PyNone,
      PyFunc("add"), PyFunc("raises"),
      Series(<<IntAtom(1), IntAtom(2)>>, "int64"),
      NdArray(<<IntAtom(1), IntAtom(2)>>, "int64"),
      DataFrame({"a"}, <<IntAtom(1), IntAtom(2)>>) }

GeneralFetches ==
    FetchesOf(FilesOf(GeneralDescriptors,
                      {Descriptor("exact", PyInt(2)),
                       With(Descriptor("exact", PyInt(3)), "display_answer", PyInt(3))}))

RequestedPids == {ProblemId(i) : i \in 1..(MaxProblems + 1)}

SeqsUpTo(S, n) == UNION {[1..k -> S] : k \in 0..n}

\* the files that hold problem_1 alone, with a descriptor of Descriptors
FilesFor(Descriptors) == {[ok |-> TRUE, data |-> [q \in {ProblemId(1)} |-> d]] : d \in Descriptors}

-----------------------------------------------------------------------------
(* Spec: grading through grader.check_answer and through submit_answer, over *)
(* descriptors of every type                                                 *)

GradeDirectly == DoCheckAnswer(RequestedPids, GeneralAnswers, GeneralFetches, {FALSE})
Submit == DoSubmitAnswer(RequestedPids, GeneralAnswers, GeneralFetches)

Next == GradeDirectly \/ Submit \/ Return

Spec == Init /\ [][Next]_vars

-----------------------------------------------------------------------------
(* SpecLab: create_lab_functions and the check_problem_<i> it installs *)

LabAnswers == {PyInt(2), PyInt(3)}
LabFetches == FetchesOf(FilesOf({Descriptor("exact", PyInt(2))}, {Descriptor("exact", PyInt(2))}))

CreateLab == DoCreateLabFunctions(TRUE)
CheckProblem == DoCheckProblem(LabAnswers, LabFetches)

NextLab == CreateLab \/ CheckProblem \/ Return

SpecLab == Init /\ [][NextLab]_vars

-----------------------------------------------------------------------------
(* SpecIdem: calls of every kind, one grader.check_answer call kept in earlier *)

IdemDescriptors ==
    { With(Descriptor("numeric", PyInt(2)), "tolerance", PyInt(1)),
      With(Descriptor("function", PyNone), "test_cases", <<SumCase, RootCase>>),
      With(Descriptor("exact", PyInt(3)), "display_answer", PyInt(3)),
      Without(Descriptor("list", PyNone), "answer") }
IdemAnswers == {PyInt(2), PyInt(3), PyFunc("add"), PyFunc("root")}
IdemFetches == {NoFetch} \cup FilesFor(IdemDescriptors)
IdemPids == {ProblemId(1), ProblemId(2)}

GradeAndKeep == DoCheckAnswer(IdemPids, IdemAnswers, IdemFetches, BOOLEAN)
SubmitBetween == DoSubmitAnswer(IdemPids, IdemAnswers, IdemFetches)
CreateBetween == DoCreateLabFunctions(FALSE)
CheckProblemBetween == DoCheckProblem(IdemAnswers, IdemFetches)

NextIdem == GradeAndKeep \/ SubmitBetween \/ CreateBetween \/ CheckProblemBetween \/ Return

SpecIdem == Init /\ [][NextIdem]_vars

-----------------------------------------------------------------------------
(* SpecNumeric: descriptors of type numeric *)

Nums == {PyInt(i) : i \in (0 - MaxNum)..MaxNum}
Tols == {PyInt(i) : i \in 0..MaxTol}
NotNumbers == {PyStr(<<"p">>), PyNone, PyList(<<IntAtom(1)>>)}

NumericDescriptors ==
    LET plain == {Descriptor("numeric", e) : e \in Nums \cup {PyStr(<<"p">>)}} IN
    plain \cup {With(d, "tolerance", t) : d \in plain, t \in Tols \cup {PyStr(<<"p">>)}}

GradeNumeric ==
    DoCheckAnswer({ProblemId(1)}, Nums \cup NotNumbers, FilesFor(NumericDescriptors), {FALSE})

NextNumeric == GradeNumeric \/ Return

SpecNumeric == Init /\ [][NextNumeric]_vars

-----------------------------------------------------------------------------
(* SpecList: descriptors of type list *)

Atoms == {IntAtom(1), IntAtom(2), StrAtom(<<"a">>)}
Lists == {PyList(l) : l \in SeqsUpTo(Atoms, MaxListLen)}
NotLists == {PyInt(1), PyNone, PyTuple(<<IntAtom(1), IntAtom(2)>>)}

ListDescriptors == {Descriptor("list", e) : e \in Lists \cup {PyInt(1)}}

GradeList == DoCheckAnswer({ProblemId(1)}, Lists \cup NotLists, FilesFor(ListDescriptors), {FALSE})

NextList == GradeList \/ Return

SpecList == Init /\ [][NextList]_vars

-----------------------------------------------------------------------------
(* SpecFunction: descriptors of type function *)

CaseInputs == {PyList(<<IntAtom(1), IntAtom(2)>>), PyInt(1), PyInt(0 - 1)}
CaseOutputs == {PyInt(3), PyInt(1)}
TestCases ==
    {TestCase(i, o) : i \in CaseInputs, o \in CaseOutputs}
        \cup {[TestCase(PyNone, PyInt(1)) EXCEPT !.has = {"output"}],
              [TestCase(PyInt(1), PyNone) EXCEPT !.has = {"input"}]}

FunctionDescriptors ==
    LET full == {With(Descriptor("function", PyNone), "test_cases", cs) :
                    cs \in SeqsUpTo(TestCases, MaxCases)} IN
    full \cup {Without(d, "answer") : d \in full} \cup {Descriptor("function", PyNone)}

Callables == {PyFunc("add"), PyFunc("root"), PyFunc("first"), PyFunc("raises")}

GradeFunction ==
    DoCheckAnswer({ProblemId(1)}, Callables \cup {PyInt(1)}, FilesFor(FunctionDescriptors),
                  {FALSE})

NextFunction == GradeFunction \/ Return

SpecFunction == Init /\ [][NextFunction]_vars

-----------------------------------------------------------------------------
(* SpecPattern: descriptors of type code_pattern *)

Texts == SeqsUpTo({"p", "s"}, MaxStrLen)
RequiredLists == SeqsUpTo({<<"p">>, <<"p", "s">>}, MaxPatterns)
ForbiddenLists == SeqsUpTo({<<"s">>, <<"p", "s">>}, MaxPatterns)

PatternDescriptors ==
    {Descriptor("code_pattern", PatternDict(ks, IF "required" \in ks THEN r ELSE <<>>,
                                            IF "forbidden" \in ks THEN f ELSE <<>>)) :
        ks \in SUBSET {"required", "forbidden"}, r \in RequiredLists, f \in ForbiddenLists}
        \cup {Descriptor("code_pattern", PyList(<<>>))}

GradePattern ==
    DoCheckAnswer({ProblemId(1)}, {PyStr(t) : t \in Texts} \cup {PyInt(1), PyNone},
                  FilesFor(PatternDescriptors), {FALSE})

NextPattern == GradePattern \/ Return

SpecPattern == Init /\ [][NextPattern]_vars

-----------------------------------------------------------------------------
(* What the claims speak of, read from the call that has just ended *)

Graded == call.op = "check_answer"
Submitted == call.op = "submit_answer"
TheAnswers == FetchAnswerFile(call.fetch)
Known == call.problem_id \in DOMAIN TheAnswers
TheDescriptor == TheAnswers[call.problem_id]

VerdictFields == {"problem_id", "correct", "feedback", "expected", "student_answer"}
IsVerdict(r) == r.raised = "" /\ r.fields = VerdictFields
IsLookupError(r, id) ==
    /\ r.raised = ""
    /\ r.fields = {"status", "message"}
    /\ r.status = "error"
    /\ r.message.id = id

HintPrinted == \E i \in 1..Len(printed) : printed[i].line = "hint"

-----------------------------------------------------------------------------
(* C1: for every descriptor of a known problem id and every submitted value,  *)
(* check_answer returns a verdict; no failure propagates to the caller,       *)
(* whichever fields the descriptor carries.                                   *)
C1_NoFailurePropagates ==
    (Graded /\ Known) => (result.raised = "" /\ "correct" \in result.fields)

(* C2: check_answer returns exactly one of two shapes: the lookup error       *)
(* (a message naming the id, no "correct" entry) for an unknown problem id,   *)
(* the verdict with all five entries for a known one.                         *)
C2_TwoResultShapes ==
    Graded =>
        IF Known THEN IsVerdict(result)
        ELSE IsLookupError(result, call.problem_id) /\ "correct" \notin result.fields

(* C3: submit_answer always returns a structured result and never raises,     *)
(* also for an unknown problem id and when the fetch of the file fails.       *)
C3_SubmitNeverRaises ==
    Submitted => (result.raised = "" /\ result.fields # {})

(* C4 as claimed: a verdict with correct = true never carries the             *)
(* descriptor's display answer in its expected entry.                         *)
C4_DisplayOnlyWhenWrong ==
    ((Graded \/ Submitted) /\ IsVerdict(result) /\ result.correct)
        => result.expected = Hidden

(* C4 as amended: every verdict carries the descriptor's display_answer (the  *)
(* hidden default when it has none) in its expected entry, whether correct or *)
(* not; submit_answer prints it (the hint line) exactly when the verdict is   *)
(* not correct and the entry is not the hidden default.                       *)
C4_DisplayAlwaysCarried ==
    ((Graded \/ Submitted) /\ IsVerdict(result)) =>
        /\ result.expected = (IF "display_answer" \in TheDescriptor.has
                              THEN TheDescriptor.display_answer ELSE Hidden)
        /\ Submitted => (HintPrinted <=> (~result.correct /\ result.expected # Hidden))
        /\ Graded => ~HintPrinted

C4_Witness ==
    /\ Submitted /\ IsVerdict(result)
    /\ result.correct
    /\ result.expected # Hidden
    /\ ~HintPrinted

-----------------------------------------------------------------------------
(* C5: for a numeric descriptor with expected e and tolerance t (0 when the   *)
(* descriptor has none), the submission s matches iff it is a number and      *)
(* |s - e| <= t, the bound included; a mismatching number is told the         *)
(* difference, a submission that is no number is a mismatch with the          *)
(* need-a-number feedback, and nothing is raised.                             *)
C5_NumericTolerance ==
    (/\ Graded /\ Known
     /\ TheDescriptor.type = "numeric"
     /\ "answer" \in TheDescriptor.has /\ TheDescriptor.answer.k = "int"
     /\ "tolerance" \in TheDescriptor.has => TheDescriptor.tolerance.k = "int")
    => LET t == IF "tolerance" \in TheDescriptor.has THEN TheDescriptor.tolerance.n ELSE 0
           e == TheDescriptor.answer.n
           s == call.answer
       IN /\ IsVerdict(result)
          /\ result.correct <=> (s.k = "int" /\ s.n - e <= t /\ e - s.n <= t)
          /\ s.k # "int" => result.feedback.msg = "need_number"
          /\ (s.k = "int" /\ ~result.correct) =>
                /\ result.feedback.msg = "not_close"
                /\ result.feedback.diff = (IF s.n >= e THEN s.n - e ELSE e - s.n)

C5_Witness ==
    /\ Graded /\ Known
    /\ TheDescriptor.type = "numeric"
    /\ "tolerance" \in TheDescriptor.has /\ TheDescriptor.tolerance.k = "int"
    /\ TheDescriptor.tolerance.n > 0
    /\ TheDescriptor.answer.k = "int" /\ call.answer.k = "int"
    /\ call.answer.n - TheDescriptor.answer.n = TheDescriptor.tolerance.n
    /\ result.correct

-----------------------------------------------------------------------------
(* C6: for a function descriptor with test cases c1..cT, the submission is    *)
(* invoked on every case in order, whatever earlier cases did (a list input   *)
(* unpacked into positional arguments, any other input passed as the one      *)
(* argument); a case passes iff the invocation returns its output, a case     *)
(* whose invocation raises is failed; the result matches iff all T pass, and  *)
(* the mismatch feedback gives the number passed and T.                       *)
CaseArgs(c) ==
    IF c.input.k = "list"
    THEN [i \in 1..Len(c.input.items) |->
            [Blank EXCEPT !.k = c.input.items[i].k, !.n = c.input.items[i].n,
                          !.str = c.input.items[i].str]]
    ELSE <<c.input>>

CasePasses(f, c) == ~Invoke(f, CaseArgs(c)).raised /\ Invoke(f, CaseArgs(c)).val = c.output

TheCases == IF "test_cases" \in TheDescriptor.has THEN TheDescriptor.test_cases ELSE <<>>

HarnessRan ==
    /\ Graded /\ Known
    /\ TheDescriptor.type = "function"
    /\ "answer" \in TheDescriptor.has
    /\ \A i \in 1..Len(TheCases) : TheCases[i].has = {"input", "output"}

-----------------------------------------------------------------------------
(* C7: for a code_pattern descriptor and a string submission, the result      *)
(* matches iff every required pattern occurs in the submission and no         *)
(* forbidden one does; both lists are gone through in full, so the mismatch   *)
(* feedback names every missing required pattern and every forbidden pattern  *)
(* found. A submission that is no string is a mismatch.                       *)
Occurs(q, text) ==
    \E a \in 0..Len(text) : \E b \in a..Len(text) : SubSeq(text, a + 1, b) = q

TheRequired ==
    IF "required" \in TheDescriptor.answer.keys THEN TheDescriptor.answer.required ELSE <<>>
TheForbidden ==
    IF "forbidden" \in TheDescriptor.answer.keys THEN TheDescriptor.answer.forbidden ELSE <<>>

C7_CodePattern ==
    (/\ Graded /\ Known
     /\ TheDescriptor.type = "code_pattern"
     /\ "answer" \in TheDescriptor.has /\ TheDescriptor.answer.k = "dict")
    => /\ IsVerdict(result)
       /\ call.answer.k = "str" =>
            /\ result.correct <=>
                  /\ \A i \in 1..Len(TheRequired) : Occurs(TheRequired[i], call.answer.str)
                  /\ \A i \in 1..Len(TheForbidden) : ~Occurs(TheForbidden[i], call.answer.str)
            /\ ~result.correct =>
                  /\ result.feedback.msg = "pattern_feedback"
                  /\ result.feedback.missing =
                        SelectSeq(TheRequired, LAMBDA q : ~Occurs(q, call.answer.str))
                  /\ result.feedback.forbidden =
                        SelectSeq(TheForbidden, LAMBDA q : Occurs(q, call.answer.str))
       /\ call.answer.k # "str" =>
            ~result.correct /\ result.feedback.msg = "need_string"

C7_Witness ==
    /\ Graded /\ Known
    /\ TheDescriptor.type = "code_pattern"
    /\ call.answer.k = "str"
    /\ ~result.correct
    /\ result.feedback.missing # <<>>
    /\ result.feedback.forbidden # <<>>

-----------------------------------------------------------------------------
(* C8 as claimed: for a list descriptor the result matches iff submission and *)
(* expected value are both lists and equal as multisets: every permutation of *)
(* the expected list matches.                                                 *)
Count(x, l) == Cardinality({i \in 1..Len(l) : l[i] = x})
SameMultiset(a, b) ==
    \A x \in {a[i] : i \in 1..Len(a)} \cup {b[i] : i \in 1..Len(b)} : Count(x, a) = Count(x, b)
Orderable(l) == \A i, j \in 1..Len(l) : l[i].k = l[j].k

ListGraded ==
    /\ Graded /\ Known
    /\ TheDescriptor.type = "list"
    /\ "answer" \in TheDescriptor.has /\ TheDescriptor.answer.k = "list"

C8_MultisetMatch ==
    ListGraded =>
        (result.correct <=>
            (call.answer.k = "list" /\ SameMultiset(call.answer.items, TheDescriptor.answer.items)))

(* C8 as amended: the result matches iff both are lists, each of elements     *)
(* that Python can order among themselves, and they are equal as multisets;   *)
(* when either list mixes ints and strs, sorted() raises and the result is a  *)
(* mismatch with the grading-error feedback, even for the expected list       *)
(* itself; a submission that is no list is a mismatch.                        *)
C8_OrderableMultisetMatch ==
    ListGraded =>
        /\ IsVerdict(result)
        /\ result.correct <=>
              /\ call.answer.k = "list"
              /\ Orderable(call.answer.items) /\ Orderable(TheDescriptor.answer.items)
              /\ SameMultiset(call.answer.items, TheDescriptor.answer.items)
        /\ (/\ call.answer.k = "list"
            /\ ~(Orderable(call.answer.items) /\ Orderable(TheDescriptor.answer.items)))
              => result.feedback.msg = "grading_error"
        /\ call.answer.k # "list" => result.feedback.msg = "need_list"

C8_Witness ==
    /\ ListGraded
    /\ call.answer.k = "list"
    /\ Len(call.answer.items) = 3
    /\ call.answer.items # TheDescriptor.answer.items
    /\ result.correct

-----------------------------------------------------------------------------
(* C9: two grader.check_answer calls with the same problem id, the same       *)
(* submitted value and the same descriptors give the same result, whatever    *)
(* was called in between.                                                     *)
SameArguments ==
    /\ earlier.set /\ Graded
    /\ call.problem_id = earlier.call.problem_id
    /\ call.answer = earlier.call.answer
    /\ TheAnswers = FetchAnswerFile(earlier.call.fetch)

-----------------------------------------------------------------------------
(* C10: after any create_lab_functions calls, check_problem_<i> exists iff    *)
(* some call had num_problems >= i, and it submits "problem_<i>" to the lab   *)
(* of the most recent such call: a later call rebinds 1..n and leaves the     *)
(* bindings above n as they were.                                             *)
MostRecent(i) ==
    LET js == {j \in 1..Len(created) : created[j].n >= i} IN
    IF js = {} THEN 0 ELSE CHOOSE j \in js : \A m \in js : m <= j

C10_LabBindings ==
    \A i \in 1..MaxProblems :
        /\ globals_dict[i].bound <=> MostRecent(i) # 0
        /\ MostRecent(i) # 0 =>
              /\ globals_dict[i].pid = ProblemId(i)
              /\ globals_dict[i].lab = created[MostRecent(i)].lab
              /\ (call.op = "check_problem" /\ call.n = i) =>
                    /\ call.problem_id = ProblemId(i)
                    /\ call.file = [dir |-> created[MostRecent(i)].lab, name |-> "answers.json"]

C10_Witness ==
    /\ Len(created) = 2
    /\ created[1].n = 2 /\ created[2].n = 1
    /\ created[1].lab # created[2].lab
    /\ call.op = "check_problem" /\ call.n = 2
    /\ call.file.dir = created[1].lab

=============================================================================
